---- MODULE Spec2Model ----
(***************************************************************************)
(* Model of the authorization / token-lifecycle subsystem of               *)
(* tool-googlecalendar-python: the request gate (AuthenticationMiddleware),*)
(* the ticket manager (gen_user_auth_token / match_user_auth_token), the   *)
(* OAuth state machine (start_google_auth / handle_google_callback), the   *)
(* token lifecycle manager (get_user_token) and the credential store       *)
(* (save_user_google_tokens / get_user_google_credentials).                *)
(*                                                                         *)
(* Strings are sequences of chunks, so that prefix tests, header splitting *)
(* and URL decoding are computed and not assumed.  A Python dict is a      *)
(* function whose DOMAIN is the set of its keys.  Every handler is one     *)
(* atomic action: the handlers are synchronous code (requests.post blocks  *)
(* the event loop), and one request is gate + handler.                     *)
(*                                                                         *)
(* Environment: os.urandom never repeats a value (tickets and state nonces *)
(* are drawn fresh); the provider answers a token request either with a    *)
(* failure (non-2xx / transport error) or with a 2xx body that holds an    *)
(* access_token and optionally refresh_token and expires_in (RFC 6749 5.1).*)
(***************************************************************************)
EXTENDS Integers, Sequences, FiniteSets, TLC

\* ------------------------------------------------------------------ bounds
MaxTickets == 2     \* number of ticket secrets os.urandom may hand out
MaxStates == 1      \* number of state nonces os.urandom may hand out
MaxTicks == 1       \* number of seconds the clock may advance
MaxWriters == 2     \* number of save_user_google_tokens calls under way at once
MaxCallers == 3     \* number of gen_user_auth_token calls under way at once
StartTime == 100    \* reading of time.time() when the service starts

\* --------------------------------------------------------------- constants
FreshnessMargin == 60          \* disk.py: current_time >= expires_at - 60
None == <<"<None>">>           \* Python None where a string is expected
EmptyStr == << >>              \* ""
REQUEST_AUTH_TOKEN == "[AUTH]"
SINGLE_USER == <<"single_user">>
AUTH_PATH == <<"/auth">>
CALLBACK_PATH == <<"/auth", "/google/callback">>
MCP_PATH == <<"/mcp">>

\* ----------------------------------------------------------------- helpers
StartsWith(s, p) == Len(s) >= Len(p) /\ SubSeq(s, 1, Len(p)) = p

\* dict.get(key, default)
Get(d, k, default) == IF k \in DOMAIN d THEN d[k] ELSE default

\* d[k] = v on a dict
Put(d, k, v) == (k :> v) @@ d

\* a lookup that leaves the key in the dict (get where pop is meant)
Pop_keeps(d, k) == d

\* the dict left by d.pop(k, None)
Pop(d, k) == [x \in (DOMAIN d) \ {k} |-> d[x]]

\* a test that takes every string, set or not, for unset
Truthy_never(x) == FALSE

\* Python truth of a string or None: "if x:"
Truthy(x) == x # None /\ x # EmptyStr

\* str.lower() on the words an Authorization scheme is written with
Lower(w) == IF w \in {"Bearer", "BEARER", "bearer"} THEN "bearer" ELSE w

\* urllib.parse.unquote_plus as Starlette's QueryParams applies it to a value:
\* "+" decodes to a space (the alphabet holds no "%" escape)
Unquote(s) == [i \in DOMAIN s |-> IF s[i] = "+" THEN " " ELSE s[i]]

Digit(i) == CASE i = 1 -> "1" [] i = 2 -> "2" [] i = 3 -> "3" [] i = 4 -> "4"
              [] i = 5 -> "5" [] i = 6 -> "6" [] OTHER -> "7"

\* os.urandom(32).hex(): the i-th ticket secret drawn
TicketSecret(i) == << "t" , Digit(i) >>
\* os.urandom(16).hex(): the i-th state nonce drawn
StateNonce(i) == << "n", Digit(i) >>


\* --------------------------------------------------- the provider (environment)
AccessTokens == { <<"at1">>, <<"at2">> }
ExpiresIn == { 61 }
ISSUED_REFRESH_TOKEN == <<"rt1">>      \* the refresh token the consent grants
ROTATED_REFRESH_TOKEN == <<"rt2">>     \* a refresh token a refresh response may carry

\* 2xx bodies of the token endpoint: access_token, optionally expires_in, and one of
\* the given refresh_token parts (the empty part: no refresh_token in the body)
TokenBodies(refresh_parts) ==
    { [access_token |-> a] @@ r @@ e :
        a \in AccessTokens,
        r \in refresh_parts,
        e \in { << >> } \cup { [expires_in |-> n] : n \in ExpiresIn } }

\* a non-2xx answer or a transport error: raise_for_status / requests.post raises
Failure == [ok |-> FALSE, json |-> << >>]
Success(bodies) == { [ok |-> TRUE, json |-> b] : b \in bodies }

\* authorization codes a browser may bring back: one the provider issued, one it did not
GoodCode == <<"code-good">>
BadCode == <<"code-bad">>

\* what the POST of exchange_code_for_tokens can produce: the provider never accepts a
\* code it did not issue, and a consent asked with access_type=offline and
\* prompt=consent grants a refresh token
ExchangeResponses(code) ==
    IF code = GoodCode
        THEN { Failure }
             \cup Success(TokenBodies({ [refresh_token |-> ISSUED_REFRESH_TOKEN] }))
        ELSE { Failure }

\* what the POST of refresh_google_access_token can produce: the provider accepts
\* only the refresh token it granted, and its body may omit refresh_token or rotate it
RefreshResponses(refresh_token) ==
    IF refresh_token = ISSUED_REFRESH_TOKEN
        THEN { Failure }
             \cup Success(TokenBodies({ << >>, [refresh_token |-> ROTATED_REFRESH_TOKEN] }))
        ELSE { Failure }

\* 2xx bodies of the token endpoint that hold no access_token
OddBodies == { [expires_in |-> n] : n \in ExpiresIn }

\* what the POST of refresh_google_access_token can produce when the provider is not
\* held to RFC 6749: also a 2xx answer whose body lacks access_token
AnyRefreshResponses(refresh_token) ==
    RefreshResponses(refresh_token)
        \cup (IF refresh_token = ISSUED_REFRESH_TOKEN THEN Success(OddBodies) ELSE { })

\* ------------------------------------------------------------------- state
VARIABLES
    BEARER_TOKEN,                \* authenticate.py: the service secret, None when AUTH_TOKEN is unset
    temp_user_oauth_token,       \* authenticate.py: dict user id -> ticket secret
    temp_google_oauth_states,    \* google.py: dict state nonce -> user id
    tokens,                      \* disk.py: tokens/<user id>.json, dict user id -> token_data
    now,                         \* int(time.time())
    issued,                      \* the users the ticket secrets 1..Len were drawn for, in order
    nonces,                      \* the users the state nonces 1..Len were drawn for, in order
    consumed,                    \* the state nonces a callback has taken out of the store
    last,                        \* the last request handled and its response
    file,                        \* disk.py: the text of tokens/single_user.json
    saving,                      \* disk.py: the calls of save_user_google_tokens, each with its
                                 \* argument, its buffered text, where it stands, its place in
                                 \* the order of calls, and whether it ran with no other open
    read_data,                   \* disk.py: what the last json.load of the file gave, and after
                                 \* how many opens and closes of savers it was made
    issuing                      \* authenticate.py: the calls of gen_user_auth_token, each with
                                 \* its argument, its local random_token, where it stands and
                                 \* its place in the order of the stores

\* the state of the service, where a request is one step
service_vars == << BEARER_TOKEN, temp_user_oauth_token, temp_google_oauth_states, tokens,
                   now, issued, nonces, consumed, last >>

\* the credential file of one user seen system call by system call
file_vars == << file, saving, read_data >>

\* what a request of the service leaves alone: the file seen step by step and the calls
\* of gen_user_auth_token seen statement by statement
call_vars == << file_vars, issuing >>

vars == << service_vars, call_vars >>

SERVICE_SECRET == <<"svc">>

\* ------------------------------------------------------- authenticate.py
\* the gate's own query parser (lines 82-90): items split at "&", each at its first "=",
\* no URL decoding, a later item overwrites an earlier one
RECURSIVE GateQuery(_)
GateQuery(query_string) ==
    IF query_string = << >> THEN << >>
    ELSE LET n == Len(query_string)
             item == query_string[n]
             before == GateQuery(SubSeq(query_string, 1, n - 1))
         IN  IF Len(item) >= 2 /\ item[2] = "="
                 THEN Put(before, item[1], SubSeq(item, 3, Len(item)))
             ELSE IF item # << >> THEN Put(before, item[1], EmptyStr)
             ELSE before

\* strip().split(maxsplit=1) and the bearer test (lines 111-113): a header value is its
\* first word followed by the rest
BearerOf(authorization_header) ==
    IF Len(authorization_header) >= 2 /\ Lower(authorization_header[1]) = "bearer"
        THEN Tail(authorization_header)
        ELSE None

\* AuthenticationMiddleware.__call__ without the bypass of lines 63-65: the callback
\* path, which begins with /auth, is checked against the ticket in the query
AuthenticationMiddleware_noBypass(scope) ==
    IF scope.type = "http" THEN
        IF StartsWith(scope.path, AUTH_PATH) THEN
            LET query_params == GateQuery(scope.query_string)
                user_id == Get(query_params, "userid", EmptyStr)
                target_token == Get(temp_user_oauth_token, user_id, None)
                bearer == Get(query_params, "token", None)
            IN  IF target_token = None \/ bearer # target_token
                    THEN "Unauthorized" ELSE "app"
        ELSE
            LET authorization_header == Get(scope.headers, "authorization", None)
            IN  IF authorization_header = None \/ authorization_header = EmptyStr
                    THEN "Missing Authorization Header"
                ELSE IF BEARER_TOKEN = None \/ BearerOf(authorization_header) # BEARER_TOKEN
                    THEN "Unauthorized" ELSE "app"
    ELSE "app"

\* AuthenticationMiddleware.__call__: "app" when the downstream application is invoked,
\* else the text of the 401 response
AuthenticationMiddleware(scope) ==
    IF scope.type = "http" THEN
        IF StartsWith(scope.path, CALLBACK_PATH) THEN "app"
        ELSE IF StartsWith(scope.path, AUTH_PATH) THEN
            LET query_params == GateQuery(scope.query_string)
                user_id == Get(query_params, "userid", EmptyStr)
                target_token == Get(temp_user_oauth_token, user_id, None)
                bearer == Get(query_params, "token", None)
            IN  IF target_token = None \/ bearer # target_token
                    THEN "Unauthorized" ELSE "app"
        ELSE
            LET authorization_header == Get(scope.headers, "authorization", None)
            IN  IF authorization_header = None \/ authorization_header = EmptyStr
                    THEN "Missing Authorization Header"
                ELSE IF BEARER_TOKEN = None \/ BearerOf(authorization_header) # BEARER_TOKEN
                    THEN "Unauthorized" ELSE "app"
    ELSE "app"

\* gen_user_auth_token that keeps the ticket a user already holds (setdefault)
gen_user_auth_token_keepsOld(store, user_id, random_token) ==
    IF user_id \in DOMAIN store THEN store ELSE Put(store, user_id, random_token)

\* gen_user_auth_token: the store after issuing the next fresh secret for user_id
gen_user_auth_token(store, user_id, random_token) == Put(store, user_id, random_token)

\* match_user_auth_token that looks the token up under any user
match_user_auth_token_anyUser(user_id, token) ==
    \E u \in DOMAIN temp_user_oauth_token : temp_user_oauth_token[u] = token

\* match_user_auth_token
match_user_auth_token(user_id, token) ==
    IF user_id \in DOMAIN temp_user_oauth_token
        THEN temp_user_oauth_token[user_id] = token
        ELSE FALSE

\* --------------------------------------------------------------- disk.py
\* tokens[u] is what json.load makes of tokens/<u>.json: a dict for a JSON object, and
\* for a file that holds anything else one of two markers
UNPARSEABLE == ("<unparseable>" :> EmptyStr)     \* json.load raises (empty, cut off, garbage)
NOT_AN_OBJECT == ("<array>" :> EmptyStr)         \* valid JSON that is no object, e.g. []

\* the key under which a dict holds an expires_at that is a JSON string, not a number
EXPIRES_AT_STRING == "expires_at:string"

\* the members json.dump writes, in the order of the dict: the provider's, then the
\* expires_at that save_user_google_tokens adds
JsonKeys == << "access_token", "expires_in", "refresh_token", "expires_at" >>
NumberKeys == { "expires_in", "expires_at" }

DecimalDigits == << "0", "1", "2", "3", "4", "5", "6", "7", "8", "9" >>
IsDigit(lexeme) == lexeme \in { DecimalDigits[d] : d \in DOMAIN DecimalDigits }

\* a number as json.dump writes it: its decimal digits
RECURSIVE Decimal(_)
Decimal(n) ==
    IF n < 10 THEN << DecimalDigits[n + 1] >>
    ELSE Decimal(n \div 10) \o << DecimalDigits[(n % 10) + 1] >>

\* the number json.load reads from a run of decimal digits
RECURSIVE NumberOf(_)
NumberOf(digits) ==
    IF digits = << >> THEN 0
    ELSE LET d == CHOOSE k \in DOMAIN DecimalDigits : DecimalDigits[k] = digits[Len(digits)]
         IN  10 * NumberOf(SubSeq(digits, 1, Len(digits) - 1)) + (d - 1)

\* json.dump(token_data, f): a text of lexemes, a number in decimal digits, a string
\* between quotes
RECURSIVE DumpMembers(_, _)
DumpMembers(token_data, i) ==
    IF i > Len(JsonKeys) THEN << >>
    ELSE LET key == JsonKeys[i]
             rest == DumpMembers(token_data, i + 1)
         IN  IF key \notin DOMAIN token_data THEN rest
             ELSE IF key \in NumberKeys THEN << key >> \o Decimal(token_data[key]) \o rest
             ELSE << key, "\"" >> \o token_data[key] \o << "\"" >> \o rest

json_dump(token_data) == << "{" >> \o DumpMembers(token_data, 1) \o << "}" >>

\* the position of the first quote at or after from, 0 when there is none
NextQuote(text, from) ==
    LET quotes == { j \in from..Len(text) : text[j] = "\"" }
    IN  IF quotes = { } THEN 0 ELSE CHOOSE j \in quotes : \A k \in quotes : j <= k

\* the position after the run of digits that starts at from
DigitsEnd(text, from) ==
    LET others == { j \in from..Len(text) : ~IsDigit(text[j]) }
    IN  IF others = { } THEN Len(text) + 1 ELSE CHOOSE j \in others : \A k \in others : j <= k

\* json.load(f): the dict of a text that is one JSON object and nothing more, and
\* UNPARSEABLE where it raises JSONDecodeError (empty text, no closing brace, text
\* after the closing brace, a number with a leading 0)
RECURSIVE ParseMembers(_, _, _)
ParseMembers(text, i, members) ==
    IF i > Len(text) THEN UNPARSEABLE
    ELSE IF text[i] = "}" THEN (IF i = Len(text) THEN members ELSE UNPARSEABLE)
    ELSE IF i = Len(text) \/ text[i] \notin { JsonKeys[k] : k \in DOMAIN JsonKeys }
        THEN UNPARSEABLE
    ELSE IF text[i + 1] = "\""
        THEN LET close == NextQuote(text, i + 2)
             IN  IF close = 0 THEN UNPARSEABLE
                 ELSE ParseMembers(text, close + 1,
                                   Put(members, text[i], SubSeq(text, i + 2, close - 1)))
    ELSE LET end == DigitsEnd(text, i + 1)
             digits == SubSeq(text, i + 1, end - 1)
         IN  IF digits = << >> \/ (Len(digits) > 1 /\ digits[1] = "0") THEN UNPARSEABLE
             ELSE ParseMembers(text, end, Put(members, text[i], NumberOf(digits)))

json_load(text) ==
    IF text = << >> \/ text[1] # "{" THEN UNPARSEABLE ELSE ParseMembers(text, 2, << >>)

\* save_user_google_tokens that takes expires_in itself for the time of expiry
save_user_google_tokens_noClock(token_data, current_time) ==
    IF "expires_in" \in DOMAIN token_data
        THEN Put(token_data, "expires_at", token_data.expires_in)
        ELSE Put(token_data, "expires_at", 0)

\* save_user_google_tokens: the token_data written to tokens/<user_id>.json
save_user_google_tokens(token_data, current_time) ==
    IF "expires_in" \in DOMAIN token_data
        THEN Put(token_data, "expires_at", current_time + token_data.expires_in)
        ELSE Put(token_data, "expires_at", 0)

\* get_user_google_credentials that takes every record for expired
get_user_google_credentials_alwaysStale(disk, user_id, current_time) ==
    IF user_id \notin DOMAIN disk THEN [kind |-> "none", value |-> None]
    ELSE [kind |-> "stale", value |-> Get(disk[user_id], "refresh_token", None)]

\* get_user_google_credentials with ">" for ">=": fresh up to and including the boundary
get_user_google_credentials_offByOne(disk, user_id, current_time) ==
    IF user_id \notin DOMAIN disk THEN [kind |-> "none", value |-> None]
    ELSE IF current_time > disk[user_id].expires_at - FreshnessMargin
        THEN [kind |-> "stale", value |-> Get(disk[user_id], "refresh_token", None)]
    ELSE [kind |-> "valid", value |-> Get(disk[user_id], "access_token", None)]

\* get_user_google_credentials: [kind |-> "none"] for None, else (is_valid, token);
\* [kind |-> "raises"] where an exception leaves the function: token_data.get on a value
\* that is no dict (line 86), expires_at - 60 on a string (line 98)
get_user_google_credentials(disk, user_id, current_time) ==
    IF user_id \notin DOMAIN disk THEN [kind |-> "none", value |-> None]
    ELSE IF disk[user_id] = UNPARSEABLE THEN [kind |-> "none", value |-> None]
    ELSE IF disk[user_id] = NOT_AN_OBJECT THEN [kind |-> "raises", value |-> None]
    ELSE LET token_data == disk[user_id]
             access_token == Get(token_data, "access_token", None)
             refresh_token == Get(token_data, "refresh_token", None)
         IN  IF access_token = None \/ access_token = EmptyStr
                \/ { "expires_at", EXPIRES_AT_STRING } \cap DOMAIN token_data = { }
                 THEN [kind |-> "none", value |-> None]
             ELSE IF EXPIRES_AT_STRING \in DOMAIN token_data
                 THEN [kind |-> "raises", value |-> None]
             ELSE IF current_time >= token_data.expires_at - FreshnessMargin
                 THEN [kind |-> "stale", value |-> refresh_token]
             ELSE [kind |-> "valid", value |-> access_token]

\* ------------------------------------------------------------- google.py
\* refresh_google_access_token that returns the new access token without saving it
refresh_google_access_token_noSave(disk, userid, refresh_token, response, current_time) ==
    IF ~response.ok THEN [ret |-> None, disk |-> disk, calls |-> 1, saves |-> 0]
    ELSE [ret |-> Get(response.json, "access_token", None),
          disk |-> disk, calls |-> 1, saves |-> 0]

\* refresh_google_access_token that saves the provider's body as it came (line 58 left out)
refresh_google_access_token_asReceived(disk, userid, refresh_token, response, current_time) ==
    IF ~response.ok THEN [ret |-> None, disk |-> disk, calls |-> 1, saves |-> 0]
    ELSE LET saved == Put(disk, userid, save_user_google_tokens(response.json, current_time))
         IN  [ret |-> Get(response.json, "access_token", None),
              disk |-> saved, calls |-> 1, saves |-> 1]

\* refresh_google_access_token: one POST; on a 2xx body the refresh token is put back,
\* the data saved and its access_token returned; any exception yields None
refresh_google_access_token(disk, userid, refresh_token, response, current_time) ==
    IF ~response.ok THEN [ret |-> None, disk |-> disk, calls |-> 1, saves |-> 0]
    ELSE LET new_token_data == Put(response.json, "refresh_token", refresh_token)
             saved == Put(disk, userid, save_user_google_tokens(new_token_data, current_time))
         IN  [ret |-> Get(new_token_data, "access_token", None),
              disk |-> saved, calls |-> 1, saves |-> 1]

\* exchange_code_for_tokens without raise_for_status: the body of any answer is returned
exchange_code_for_tokens_noRaise(response) ==
    [raised |-> FALSE, token_data |-> response.json]

\* exchange_code_for_tokens: one POST; raise_for_status raises on a failure, else the
\* body is returned
exchange_code_for_tokens(response) ==
    IF ~response.ok THEN [raised |-> TRUE, token_data |-> << >>]
    ELSE [raised |-> FALSE, token_data |-> response.json]

\* start_google_auth that stores the state for a user id other than its argument
start_google_auth_bindsOther(states, state, user_id) ==
    Put(states, state, IF user_id = SINGLE_USER THEN <<"a", " ", "b">> ELSE SINGLE_USER)

\* start_google_auth, line 136: the state store after the fresh state is bound to user_id
start_google_auth(states, state, user_id) == Put(states, state, user_id)

\* get_user_token: the access token or None, the credential store afterwards, the
\* number of provider calls and of saves made, and what the freshness check found
\* ("raises": the exception of get_user_google_credentials goes through, no try here)
get_user_token(disk, user_id, response, current_time) ==
    LET result == get_user_google_credentials(disk, user_id, current_time)
    IN  IF result.kind = "raises"
            THEN [ret |-> None, disk |-> disk, calls |-> 0, saves |-> 0, check |-> "raises"]
        ELSE IF result.kind = "none"
            THEN [ret |-> None, disk |-> disk, calls |-> 0, saves |-> 0, check |-> "none"]
        ELSE IF result.kind = "stale"
            THEN refresh_google_access_token(disk, user_id, result.value, response, current_time)
                     @@ [check |-> "stale"]
        ELSE [ret |-> result.value, disk |-> disk, calls |-> 0, saves |-> 0, check |-> "valid"]

\* Starlette's request.query_params: the same items, values URL-decoded
RECURSIVE QueryParams(_)
QueryParams(query_string) ==
    IF query_string = << >> THEN << >>
    ELSE LET n == Len(query_string)
             item == query_string[n]
             before == QueryParams(SubSeq(query_string, 1, n - 1))
         IN  IF Len(item) >= 2 /\ item[2] = "="
                 THEN Put(before, item[1], Unquote(SubSeq(item, 3, Len(item))))
             ELSE IF item # << >> THEN Put(before, item[1], EmptyStr)
             ELSE before

\* ---------------------------------------------------------------- requests
\* one query item key=value; a query string is a sequence of items
KV(k, v) == <<k, "=">> \o v

Scope(path, headers, query_string) ==
    [type |-> "http", path |-> path, headers |-> headers, query_string |-> query_string]

\* the response record kept in last
Observed(op, scope, app, status, body) ==
    [op |-> op, scope |-> scope, app |-> app, status |-> status, body |-> body,
     user |-> None, token |-> None, check |-> "na", calls |-> 0, saves |-> 0,
     response |-> Failure]

\* no request: the service has started, or the clock has advanced
NoScope == [type |-> "none", path |-> << >>, headers |-> << >>, query_string |-> << >>]

\* a rejection that sends the 401 and, its return left out, goes on to the application
Rejected_fallsThrough(op, scope) ==
    Observed(op, scope, TRUE, 401, << AuthenticationMiddleware(scope) >>)

\* the gate's rejection (lines 103-108 and 116-120): a 401 with the reason as plain
\* text, and a return before self.app is reached
Rejected(op, scope) ==
    Observed(op, scope, FALSE, 401, << AuthenticationMiddleware(scope) >>)

\* ------------------------------------------------- the credential file, byte level
\* no file yet: open(filepath, "r") raises FileNotFoundError
NoFile == None

Writers == 1..MaxWriters

\* what a reader has when open(filepath, "r") raised FileNotFoundError (lines 77-79)
NOT_FOUND == ("<not found>" :> EmptyStr)

\* a call of save_user_google_tokens that has not begun
IdleSave == [pc |-> "idle", token_data |-> << >>, text |-> << >>, turn |-> 0, alone |-> TRUE]

\* the file does not exist, no save_user_google_tokens is under way, nothing was read
NoSaveUnderWay ==
    /\ file = NoFile
    /\ saving = [w \in Writers |-> IdleSave]
    /\ read_data = [at |-> 0, json |-> NOT_FOUND]

\* ------------------------------------- gen_user_auth_token, statement by statement
Callers == 1..MaxCallers

\* a call of gen_user_auth_token that has not begun
IdleIssue == [pc |-> "idle", user_id |-> None, random_token |-> None, turn |-> 0]

\* no call of gen_user_auth_token is under way
NoIssueUnderWay == issuing = [c \in Callers |-> IdleIssue]

\* ------------------------------------------------------------------- Init
Init ==
    /\ BEARER_TOKEN \in { None, SERVICE_SECRET }
    /\ temp_user_oauth_token = << >>
    /\ temp_google_oauth_states = << >>
    /\ tokens = << >>
    /\ now = StartTime
    /\ issued = << >>
    /\ nonces = << >>
    /\ consumed = { }
    /\ last = Observed("start", NoScope, FALSE, 0, EmptyStr)
    /\ NoSaveUnderWay
    /\ NoIssueUnderWay

\* ---------------------------------------------------------------- main.py
\* the sentinel each tool returns when get_user_token is None
Sentinel(tool, secret) ==
    IF tool = "view_calendar"
        THEN <<REQUEST_AUTH_TOKEN, " ">> \o secret
        ELSE <<REQUEST_AUTH_TOKEN, "\n">> \o secret

\* json.dumps(...) of what the calendar API answered
JsonPayload == <<"json">>

\* what the client gets when the tool function raises: the tools have no try around
\* get_user_token (lines 52 and 90), the framework reports the tool call as failed
TOOL_ERROR == <<"Error calling tool">>

\* ------------------------------------------------------- inputs of the requests
Tools == { "view_calendar", "add_event_to_calendar" }

\* Authorization headers: none, the service secret as Bearer, another token as Bearer,
\* the service secret under another scheme
Authorizations ==
    { None,
      <<"Bearer">> \o SERVICE_SECRET,
      <<"Bearer">> \o <<"wrong">>,
      <<"Basic">> \o SERVICE_SECRET }

\* X-User-ID headers: none, and a user id that holds a space
SPACED_USER == <<"a", " ", "b">>
XUserIds == { None, SPACED_USER }

\* userid values as a client writes them in a query string
RawUserIds == { SINGLE_USER, <<"a", "+", "b">> }

\* the ticket secrets drawn so far, and a token that is none of them
KnownTokens == { TicketSecret(i) : i \in 1..Len(issued) } \cup { <<"wrong">> }

\* the state nonces drawn so far, and one that never was
KnownStates == { StateNonce(i) : i \in 1..Len(nonces) } \cup { <<"forged">> }

AuthQueries ==
    { u \o t :
        u \in { << >> } \cup { << KV("userid", x) >> : x \in RawUserIds },
        t \in { << >> } \cup { << KV("token", x) >> : x \in KnownTokens } }

CallbackQueries ==
    { c \o s : c \in { << >>, << KV("code", GoodCode) >>, << KV("code", BadCode) >> },
               s \in { << >> } \cup { << KV("state", x) >> : x \in KnownStates } }
    \cup
    { << KV("error", <<"access_denied">>) >> \o s :
               s \in { << >> } \cup { << KV("code", GoodCode), KV("state", x) >> : x \in KnownStates } }

\* requests to the callback endpoint: Authorization header and query string; a browser
\* sends no header, and a request that completes the flow may carry one that is wrong
CallbackRequests ==
    { << None, q >> : q \in CallbackQueries }
    \cup { << <<"Bearer">> \o <<"wrong">>, << KV("code", GoodCode), KV("state", x) >> >> :
              x \in { StateNonce(i) : i \in 1..Len(nonces) } }

\* scopes that are no HTTP request: the lifespan scope the server opens at start, and a
\* websocket connection, on any path and with any header
NonHttpScopes ==
    { [type |-> "lifespan", path |-> << >>, headers |-> << >>, query_string |-> << >>],
      [type |-> "websocket", path |-> AUTH_PATH,
       headers |-> [authorization |-> <<"Bearer">> \o <<"wrong">>],
       query_string |-> << >>] }

\* requests to paths no route serves: path, Authorization header, query string
AUTHORIZE_PATH == <<"/auth", "orize">>
CALLBACKS_PATH == <<"/auth", "/google/callback", "s">>
OTHER_PATH == <<"/other">>

OtherRequests ==
    { << OTHER_PATH, a, << >> >> : a \in { None, <<"Bearer">> \o SERVICE_SECRET } }
    \cup { << CALLBACKS_PATH, None, << >> >> }
    \cup { << AUTHORIZE_PATH, None, q >> :
             q \in { << >> } \cup { << KV("userid", SINGLE_USER), KV("token", x) >> :
                                      x \in { Get(temp_user_oauth_token, SINGLE_USER, <<"wrong">>) } } }

HeadersOf(authorization) ==
    IF authorization = None THEN << >> ELSE [authorization |-> authorization]

\* ---------------------------------------------------------------- main.py
\* view_calendar / add_event_to_calendar behind the gate: a tool call on the MCP route
\* with the given Authorization header; the tool, the X-User-ID header (None when
\* absent) and the provider's answer are read only once the gate has let it through;
\* conformant tells whether the provider keeps to RFC 6749
ToolRequest(authorization, conformant) ==
    LET scope == Scope(MCP_PATH, HeadersOf(authorization), << >>)
        random_token == TicketSecret(Len(issued) + 1)
    IN  IF AuthenticationMiddleware(scope) # "app"
            THEN /\ last' = Rejected("tool", scope)
                 /\ UNCHANGED << BEARER_TOKEN, temp_user_oauth_token,
                                 temp_google_oauth_states, tokens, now, issued, nonces, consumed >>
        ELSE \E tool \in Tools, x_user_id \in XUserIds :
             LET user_id == IF x_user_id = None THEN SINGLE_USER ELSE x_user_id
                 result == get_user_google_credentials(tokens, user_id, now)
             IN  \E response \in (IF result.kind # "stale" THEN { Failure }
                                  ELSE IF conformant THEN RefreshResponses(result.value)
                                  ELSE AnyRefreshResponses(result.value)) :
                 LET got == get_user_token(tokens, user_id, response, now)
                     seen == [user |-> user_id, token |-> got.ret, check |-> got.check,
                              calls |-> got.calls, saves |-> got.saves, response |-> response]
                 IN  /\ tokens' = got.disk
                     /\ IF got.check = "raises"
                            THEN /\ last' = seen @@ Observed(tool, scope, TRUE, 200, TOOL_ERROR)
                                 /\ UNCHANGED << temp_user_oauth_token, issued >>
                        ELSE IF got.ret = None
                            THEN /\ Len(issued) < MaxTickets
                                 /\ temp_user_oauth_token' =
                                        gen_user_auth_token(temp_user_oauth_token, user_id, random_token)
                                 /\ issued' = Append(issued, user_id)
                                 /\ last' = seen @@ Observed(tool, scope, TRUE, 200,
                                                             Sentinel(tool, random_token))
                            ELSE /\ last' = seen @@ Observed(tool, scope, TRUE, 200, JsonPayload)
                                 /\ UNCHANGED << temp_user_oauth_token, issued >>
                     /\ UNCHANGED << BEARER_TOKEN, temp_google_oauth_states, now, nonces, consumed >>

\* a tool call while the provider keeps to RFC 6749
ToolCall(authorization) == ToolRequest(authorization, TRUE)

\* generate_google_auth_url: the consent URL carries the state
generate_google_auth_url(state) == <<"https://accounts.google.com/o/oauth2/v2/auth?state=">> \o state

\* GET /auth whose validation takes the ticket out of the store (pop where get is meant)
AuthRequest_consumesTicket(query_string) ==
    LET scope == Scope(AUTH_PATH, << >>, query_string)
        query_params == QueryParams(query_string)
        user_id == Get(query_params, "userid", None)
        token == Get(query_params, "token", None)
        state == StateNonce(Len(nonces) + 1)
    IN  IF AuthenticationMiddleware(scope) # "app"
            THEN /\ last' = Rejected("auth", scope)
                 /\ UNCHANGED << BEARER_TOKEN, temp_user_oauth_token,
                                 temp_google_oauth_states, tokens, now, issued, nonces, consumed >>
        ELSE IF user_id = None \/ token = None \/ ~match_user_auth_token(user_id, token)
            THEN /\ last' = Observed("auth", scope, TRUE, 401, <<"Unauthorized">>)
                 /\ UNCHANGED << BEARER_TOKEN, temp_user_oauth_token,
                                 temp_google_oauth_states, tokens, now, issued, nonces, consumed >>
        ELSE /\ Len(nonces) < MaxStates
             /\ temp_user_oauth_token' = Pop(temp_user_oauth_token, user_id)
             /\ temp_google_oauth_states' =
                    start_google_auth(temp_google_oauth_states, state, user_id)
             /\ nonces' = Append(nonces, user_id)
             /\ last' = [user |-> user_id]
                          @@ Observed("auth", scope, TRUE, 307, generate_google_auth_url(state))
             /\ UNCHANGED << BEARER_TOKEN, tokens, now, issued, consumed >>

\* GET /auth: the gate, then auth(request) and start_google_auth(user_id), whose
\* RedirectResponse carries Starlette's default status 307
AuthRequest(query_string) ==
    LET scope == Scope(AUTH_PATH, << >>, query_string)
        query_params == QueryParams(query_string)
        user_id == Get(query_params, "userid", None)
        token == Get(query_params, "token", None)
        state == StateNonce(Len(nonces) + 1)
    IN  IF AuthenticationMiddleware(scope) # "app"
            THEN /\ last' = Rejected("auth", scope)
                 /\ UNCHANGED << BEARER_TOKEN, temp_user_oauth_token,
                                 temp_google_oauth_states, tokens, now, issued, nonces, consumed >>
        ELSE IF user_id = None \/ token = None \/ ~match_user_auth_token(user_id, token)
            THEN /\ last' = Observed("auth", scope, TRUE, 401, <<"Unauthorized">>)
                 /\ UNCHANGED << BEARER_TOKEN, temp_user_oauth_token,
                                 temp_google_oauth_states, tokens, now, issued, nonces, consumed >>
        ELSE /\ Len(nonces) < MaxStates
             /\ temp_google_oauth_states' =
                    start_google_auth(temp_google_oauth_states, state, user_id)
             /\ nonces' = Append(nonces, user_id)
             /\ last' = [user |-> user_id]
                          @@ Observed("auth", scope, TRUE, 307, generate_google_auth_url(state))
             /\ UNCHANGED << BEARER_TOKEN, temp_user_oauth_token, tokens, now, issued, consumed >>

\* GET /auth/google/callback: the gate, which lets it through, then
\* handle_google_callback
CallbackRequest(authorization, query_string) ==
    LET scope == Scope(CALLBACK_PATH, HeadersOf(authorization), query_string)
        query_params == QueryParams(query_string)
        code == Get(query_params, "code", None)
        state == Get(query_params, "state", None)
        error == Get(query_params, "error", None)
        user_id == Get(temp_google_oauth_states, state, None)
    IN  /\ UNCHANGED << BEARER_TOKEN, temp_user_oauth_token, now, issued, nonces >>
        /\ IF AuthenticationMiddleware(scope) # "app"
               THEN /\ last' = Rejected("callback", scope)
                    /\ UNCHANGED << temp_google_oauth_states, tokens, consumed >>
           ELSE IF Truthy(error)
               THEN /\ last' = Observed("callback", scope, TRUE, 400,
                                        <<"Google OAuth Error: ">> \o error)
                    /\ UNCHANGED << temp_google_oauth_states, tokens, consumed >>
           ELSE IF ~Truthy(code) \/ ~Truthy(state)
               THEN /\ last' = Observed("callback", scope, TRUE, 400,
                                        <<"Invalid OAuth callback parameters">>)
                    /\ UNCHANGED << temp_google_oauth_states, tokens, consumed >>
           ELSE IF user_id = None
               THEN /\ last' = Observed("callback", scope, TRUE, 400,
                                        <<"Invalid or expired state parameter">>)
                    /\ UNCHANGED << temp_google_oauth_states, tokens, consumed >>
           ELSE /\ temp_google_oauth_states' = Pop(temp_google_oauth_states, state)
                /\ consumed' = consumed \cup { state }
                /\ \E response \in ExchangeResponses(code) :
                      LET exchanged == exchange_code_for_tokens(response)
                      IN  IF ~exchanged.raised
                          THEN /\ tokens' = Put(tokens, user_id,
                                                save_user_google_tokens(exchanged.token_data, now))
                               /\ last' = [user |-> user_id, calls |-> 1, saves |-> 1,
                                           response |-> response]
                                            @@ Observed("callback", scope, TRUE, 200,
                                                        <<"You can close the tab.">>)
                          ELSE /\ UNCHANGED tokens
                               /\ last' = [user |-> user_id, calls |-> 1, response |-> response]
                                            @@ Observed("callback", scope, TRUE, 500,
                                                        <<"An internal error occurred.">>)

\* a request to a path no route serves: the gate, then the router's 404
OtherRequest(path, authorization, query_string) ==
    LET scope == Scope(path, HeadersOf(authorization), query_string)
    IN  /\ last' = IF AuthenticationMiddleware(scope) # "app"
                       THEN Rejected("other", scope)
                       ELSE Observed("other", scope, TRUE, 404, <<"Not Found">>)
        /\ UNCHANGED << BEARER_TOKEN, temp_user_oauth_token, temp_google_oauth_states,
                        tokens, now, issued, nonces, consumed >>

\* a scope that is no HTTP request: the gate hands it to the application (lines 124-126),
\* which has no handler of this repository for it
NonHttpRequest(scope) ==
    /\ last' = IF AuthenticationMiddleware(scope) # "app"
                   THEN Rejected("nonhttp", scope)
                   ELSE Observed("nonhttp", scope, TRUE, 0, EmptyStr)
    /\ UNCHANGED << BEARER_TOKEN, temp_user_oauth_token, temp_google_oauth_states,
                    tokens, now, issued, nonces, consumed >>

\* the clock advances by one second
Tick ==
    /\ now < StartTime + MaxTicks
    /\ now' = now + 1
    /\ last' = Observed("tick", NoScope, FALSE, 0, EmptyStr)
    /\ UNCHANGED << BEARER_TOKEN, temp_user_oauth_token, temp_google_oauth_states,
                    tokens, issued, nonces, consumed >>

Next ==
    \/ \E authorization \in Authorizations : ToolCall(authorization) /\ UNCHANGED call_vars
    \/ \E query_string \in AuthQueries : AuthRequest(query_string) /\ UNCHANGED call_vars
    \/ \E r \in CallbackRequests : CallbackRequest(r[1], r[2]) /\ UNCHANGED call_vars
    \/ \E r \in OtherRequests : OtherRequest(r[1], r[2], r[3]) /\ UNCHANGED call_vars
    \/ \E scope \in NonHttpScopes : NonHttpRequest(scope) /\ UNCHANGED call_vars
    \/ Tick /\ UNCHANGED call_vars

Spec == Init /\ [][Next]_vars

\* ------------------------------------------- a provider not held to RFC 6749
NextOddProvider ==
    \/ \E authorization \in Authorizations :
           ToolRequest(authorization, FALSE) /\ UNCHANGED call_vars
    \/ \E query_string \in AuthQueries : AuthRequest(query_string) /\ UNCHANGED call_vars
    \/ \E r \in CallbackRequests : CallbackRequest(r[1], r[2]) /\ UNCHANGED call_vars
    \/ \E r \in OtherRequests : OtherRequest(r[1], r[2], r[3]) /\ UNCHANGED call_vars
    \/ \E scope \in NonHttpScopes : NonHttpRequest(scope) /\ UNCHANGED call_vars
    \/ Tick /\ UNCHANGED call_vars

\* the service with a provider whose 2xx answer to a refresh may lack access_token
SpecOddProvider == Init /\ [][NextOddProvider]_vars

\* ------------------------------------ the credential file, system call by system call
\* the number of opens and closes the savers have made so far
SaveEvents ==
    Cardinality({ w \in Writers : saving[w].pc # "idle" })
        + Cardinality({ w \in Writers : saving[w].pc = "closed" })

\* save_user_google_tokens, lines 32-44: expires_at is added and open(filepath, "w")
\* creates the file or cuts it to length 0; what json.dump writes stays in the buffer
\* of the file object
SaveOpen(w, token_data) ==
    /\ saving[w].pc = "idle"
    /\ file' = << >>
    /\ saving' = [v \in Writers |->
                     IF v = w
                         THEN [pc |-> "open", token_data |-> token_data,
                               text |-> json_dump(save_user_google_tokens(token_data, now)),
                               turn |-> Cardinality({ x \in Writers : saving[x].pc # "idle" }) + 1,
                               alone |-> \A x \in Writers : saving[x].pc # "open"]
                     ELSE IF saving[v].pc = "open" THEN [saving[v] EXCEPT !.alone = FALSE]
                     ELSE saving[v]]
    /\ UNCHANGED << read_data, service_vars, issuing >>

\* save_user_google_tokens, line 44-45: leaving the with block flushes the buffer, one
\* write at the position of this file object, 0, over what the file holds by then
SaveClose(w) ==
    /\ saving[w].pc = "open"
    /\ file' = saving[w].text \o SubSeq(file, Len(saving[w].text) + 1, Len(file))
    /\ saving' = [saving EXCEPT ![w].pc = "closed"]
    /\ UNCHANGED << read_data, service_vars, issuing >>

\* get_user_google_credentials, lines 73-83: open(filepath, "r") and json.load
Load ==
    /\ read_data' = [at |-> SaveEvents,
                     json |-> IF file = NoFile THEN NOT_FOUND ELSE json_load(file)]
    /\ UNCHANGED << file, saving, service_vars, issuing >>

\* the token_data a save is called with: a 2xx body of the provider with the refresh
\* token, from the exchange of a callback or put back by a refresh
SavedBodies == TokenBodies({ [refresh_token |-> ISSUED_REFRESH_TOKEN] })

InitStore ==
    /\ Init
    /\ BEARER_TOKEN = SERVICE_SECRET

NextStore ==
    \/ \E w \in Writers, token_data \in SavedBodies : SaveOpen(w, token_data)
    \/ \E w \in Writers : SaveClose(w)
    \/ Load

\* saves and loads of one user's file by requests that run at the same time
SpecStore == InitStore /\ [][NextStore]_vars

\* ------------------------------ the ticket store, statement by statement of the calls
\* the users tickets are issued for at the same time
IssueUsers == { SINGLE_USER, SPACED_USER }

\* the store steps made so far
Stores == { c \in Callers : issuing[c].pc = "stored" }

\* gen_user_auth_token, line 141: os.urandom draws the next fresh secret into the local
\* random_token of this call
IssueDraw(c, user_id) ==
    /\ issuing[c].pc = "idle"
    /\ issuing' = [issuing EXCEPT ![c] = [pc |-> "drawn", user_id |-> user_id,
                                          random_token |-> TicketSecret(Len(issued) + 1),
                                          turn |-> 0]]
    /\ issued' = Append(issued, user_id)
    /\ UNCHANGED << BEARER_TOKEN, temp_user_oauth_token, temp_google_oauth_states, tokens,
                    now, nonces, consumed, last, file_vars >>

\* a store that binds the name to a new dict holding this entry alone
IssueStore_rebinds(c) ==
    /\ issuing[c].pc = "drawn"
    /\ temp_user_oauth_token' = (issuing[c].user_id :> issuing[c].random_token)
    /\ issuing' = [issuing EXCEPT ![c].pc = "stored", ![c].turn = Cardinality(Stores) + 1]
    /\ UNCHANGED << BEARER_TOKEN, temp_google_oauth_states, tokens, now, issued, nonces,
                    consumed, last, file_vars >>

\* gen_user_auth_token, lines 143-144: the secret is stored under the user id of this
\* call in the dict all calls share, and returned
IssueStore(c) ==
    /\ issuing[c].pc = "drawn"
    /\ temp_user_oauth_token' =
           gen_user_auth_token(temp_user_oauth_token, issuing[c].user_id, issuing[c].random_token)
    /\ issuing' = [issuing EXCEPT ![c].pc = "stored", ![c].turn = Cardinality(Stores) + 1]
    /\ UNCHANGED << BEARER_TOKEN, temp_google_oauth_states, tokens, now, issued, nonces,
                    consumed, last, file_vars >>

InitTickets ==
    /\ Init
    /\ BEARER_TOKEN = SERVICE_SECRET

NextTickets ==
    \/ \E c \in Callers, user_id \in IssueUsers : IssueDraw(c, user_id)
    \/ \E c \in Callers : IssueStore(c)

\* calls of gen_user_auth_token by requests that run at the same time
SpecTickets == InitTickets /\ [][NextTickets]_vars

\* ------------------------------------------- a credential file that is damaged
\* contents of tokens/<user>.json that save_user_google_tokens does not write: text
\* that is no JSON, JSON that is no object, an object without access_token, one without
\* expires_at, one whose expires_at is a string
MalformedRecords ==
    { UNPARSEABLE,
      NOT_AN_OBJECT,
      [refresh_token |-> ISSUED_REFRESH_TOKEN, expires_at |-> 0],
      [access_token |-> <<"at1">>, refresh_token |-> ISSUED_REFRESH_TOKEN],
      [access_token |-> <<"at1">>, refresh_token |-> ISSUED_REFRESH_TOKEN]
          @@ (EXPIRES_AT_STRING :> <<"soon">>) }

\* the service starts over a tokens folder in which the file of one user is damaged
InitMalformed ==
    /\ BEARER_TOKEN \in { None, SERVICE_SECRET }
    /\ temp_user_oauth_token = << >>
    /\ temp_google_oauth_states = << >>
    /\ tokens \in { (SINGLE_USER :> m) : m \in MalformedRecords }
    /\ now = StartTime
    /\ issued = << >>
    /\ nonces = << >>
    /\ consumed = { }
    /\ last = Observed("start", NoScope, FALSE, 0, EmptyStr)
    /\ NoSaveUnderWay
    /\ NoIssueUnderWay

SpecMalformed == InitMalformed /\ [][Next]_vars

\* =================================================================== claims
\* what a request to /auth or to the callback carries, as the application reads it
Carried(scope, key) == Get(QueryParams(scope.query_string), key, None)

\* C1 (as stated): a request to /auth with query userid=u&token=T is redirected iff a
\* ticket is stored for u and its secret is T, and is answered 401 otherwise
C1_AuthRedirectIffTicket ==
    (last.op = "auth") =>
        LET u == Carried(last.scope, "userid")
            T == Carried(last.scope, "token")
            ticket_matches == /\ u # None /\ T # None
                              /\ u \in DOMAIN temp_user_oauth_token
                              /\ temp_user_oauth_token[u] = T
        IN  /\ (last.status = 307) <=> ticket_matches
            /\ ~ticket_matches => last.status = 401

\* C2 (as stated): on a path that is neither the callback endpoint nor /auth, the gate
\* passes the request iff its Authorization header is "Bearer <service secret>", and
\* answers 401 otherwise
C2_OtherPathsNeedServiceSecret ==
    (last.scope.type = "http" /\ last.scope.path \notin { CALLBACK_PATH, AUTH_PATH }) =>
        LET has_service_bearer ==
                /\ BEARER_TOKEN # None
                /\ "authorization" \in DOMAIN last.scope.headers
                /\ last.scope.headers.authorization = <<"Bearer">> \o BEARER_TOKEN
        IN  /\ last.app <=> has_service_bearer
            /\ ~has_service_bearer => last.status = 401

\* user ids and tokens a caller of the ticket manager may present
AnyUserIds == { SINGLE_USER, SPACED_USER, <<"a", "+", "b">>, EmptyStr }
AnyTokens == { TicketSecret(i) : i \in 1..MaxTickets } \cup { <<"wrong">>, SERVICE_SECRET, EmptyStr }

\* a tool has just answered with the sentinel: gen_user_auth_token(last.user) was the
\* last thing the service did, and the secret it returned ends the sentinel
JustIssued == last.op \in Tools /\ last.token = None /\ last.check # "raises"
ReturnedSecret == SubSeq(last.body, 3, Len(last.body))

\* C3: right after gen_user_auth_token(u) returned s, match_user_auth_token(u, s) is
\* true, and it is false for u with any other secret and for any other user with s
C3_IssueThenValidate ==
    JustIssued =>
        /\ match_user_auth_token(last.user, ReturnedSecret)
        /\ \A t \in AnyTokens \ { ReturnedSecret } : ~match_user_auth_token(last.user, t)
        /\ \A v \in AnyUserIds \ { last.user } : ~match_user_auth_token(v, ReturnedSecret)

\* C3 witness: a ticket has just been issued for one user while another user holds one
C3_Witness ==
    /\ JustIssued
    /\ ReturnedSecret \in { TicketSecret(i) : i \in 1..MaxTickets }
    /\ \E v \in DOMAIN temp_user_oauth_token : v # last.user

\* the /auth request a client sends for a user id written as raw with the given token
AuthScope(raw, token) == Scope(AUTH_PATH, << >>, << KV("userid", raw), KV("token", token) >>)

\* the ways a client may write user id u in a query string
RawFormsOf(u) == { r \in RawUserIds \cup AnyUserIds : Unquote(r) = u }

\* C4: once gen_user_auth_token was called again for a user, the secret of the earlier
\* call validates no more for that user, neither by match_user_auth_token nor at the
\* /auth gate, and the secret that validates is the one issued last
C4_ReissueSupersedes ==
    \A i \in 1..Len(issued) :
        LET u == issued[i]
            newest == \A j \in 1..Len(issued) : issued[j] = u => j <= i
        IN  IF newest
                THEN match_user_auth_token(u, TicketSecret(i))
                ELSE /\ ~match_user_auth_token(u, TicketSecret(i))
                     /\ \A r \in RawFormsOf(u) :
                            AuthenticationMiddleware(AuthScope(r, TicketSecret(i))) # "app"

\* C4 witness: the same user was issued two tickets, the second just now
C4_Witness ==
    /\ JustIssued
    /\ \E i \in 1..Len(issued) : i < Len(issued) /\ issued[i] = issued[Len(issued)]

\* the stored record of user u holds an access token and an expiry
HasRecord(u) ==
    /\ u \in DOMAIN tokens
    /\ "access_token" \in DOMAIN tokens[u] /\ tokens[u].access_token # EmptyStr
    /\ "expires_at" \in DOMAIN tokens[u]

\* the record of u is fresh at the current time: now < expires_at - 60
Fresh(u) == HasRecord(u) /\ now < tokens[u].expires_at - FreshnessMargin

\* the step is a tool call the gate let through, so get_user_token(last'.user) ran
ToolStep == last'.op \in Tools

\* C5: with a stored access token and now < expires_at - 60, get_user_token(u) returns
\* the stored access token, calls the provider not at all and leaves the store as it is
C5_FreshTokenReturnedAsIs ==
    [][ (ToolStep /\ Fresh(last'.user)) =>
            /\ last'.token = tokens[last'.user].access_token
            /\ last'.calls = 0
            /\ last'.saves = 0
            /\ tokens' = tokens ]_vars

\* C5 witness: a tool call has been served from a fresh record
C5_Witness ==
    /\ last.op \in Tools /\ last.calls = 0
    /\ Fresh(last.user)
    /\ last.token = tokens[last.user].access_token
    /\ last.body = JsonPayload

\* C6: with a stored record that is not fresh (now >= expires_at - 60, the sentinel
\* expires_at = 0 included), one get_user_token(u) calls the provider's refresh exactly
\* once; it returns the refreshed access token, which is then the stored one, when the
\* refresh succeeds, and None when it fails
C6_StaleTokenRefreshedOnce ==
    [][ (ToolStep /\ HasRecord(last'.user) /\ ~Fresh(last'.user)) =>
            /\ last'.calls = 1
            /\ IF last'.response.ok
                   THEN /\ last'.token = last'.response.json.access_token
                        /\ last'.user \in DOMAIN tokens'
                        /\ tokens'[last'.user].access_token = last'.token
                   ELSE /\ last'.token = None
                        /\ tokens' = tokens ]_vars

\* C6 witness: a stale record was refreshed to another access token, which was returned
C6_Witness ==
    /\ last.op \in Tools /\ last.calls = 1 /\ last.response.ok
    /\ last.token = <<"at2">>
    /\ tokens[last.user].access_token = <<"at2">>
    /\ tokens[last.user].expires_at = 0

\* C7: get_user_token returns an access token only if the stored record was fresh when
\* checked (now < expires_at - 60) or the token comes from a refresh made in that call
C7_NoStaleTokenReturned ==
    [][ (ToolStep /\ last'.token # None) =>
            \/ /\ Fresh(last'.user)
               /\ last'.token = tokens[last'.user].access_token
               /\ last'.calls = 0
            \/ /\ last'.calls = 1
               /\ last'.response.ok
               /\ last'.token = last'.response.json.access_token ]_vars

\* C7 witness: a tool call looked up a record exactly at its boundary
\* (now = expires_at - 60); the stored token was not handed out, a refresh was tried
C7_Witness ==
    /\ last.op \in Tools /\ last.calls = 1 /\ last.token = None
    /\ HasRecord(last.user)
    /\ now = tokens[last.user].expires_at - FreshnessMargin

\* an earlier callback has consumed the state
Consumed(state) == state \in consumed

\* the step is a request to the callback endpoint
CallbackStep == last'.op = "callback"

\* C8: a callback that carries a state an earlier callback has consumed is answered 400
\* and writes no credential record, whatever code it carries
C8_StateIsSingleUse ==
    [][ (CallbackStep /\ Consumed(Carried(last'.scope, "state"))) =>
            /\ last'.status = 400
            /\ tokens' = tokens
            /\ temp_google_oauth_states' = temp_google_oauth_states ]_vars

\* C8 witness: a replayed callback with a code the provider would accept was refused
C8_Witness ==
    /\ last.op = "callback" /\ last.status = 400
    /\ Consumed(Carried(last.scope, "state"))
    /\ Carried(last.scope, "code") = GoodCode
    /\ Carried(last.scope, "error") = None

\* C9 (as stated): a tool for which get_user_token is None returns "[AUTH]", one space
\* and the secret of the ticket just issued for the user; else it returns a JSON payload
C9_SentinelHasOneSpace ==
    (last.op \in Tools) =>
        IF last.token = None
            THEN /\ last.user \in DOMAIN temp_user_oauth_token
                 /\ last.body = <<"[AUTH]", " ">> \o temp_user_oauth_token[last.user]
            ELSE last.body = JsonPayload

\* C10: the callback answers 200 only with a state that is in the store and a code
\* exchange that succeeded, and the record is then saved; 400 when the provider reports
\* an error, when code or state is missing or when the state is not in the store; 500
\* when the state is in the store and the exchange fails
C10_CallbackStatus ==
    [][ CallbackStep =>
            LET code == Carried(last'.scope, "code")
                state == Carried(last'.scope, "state")
                error == Carried(last'.scope, "error")
                reported == error \notin { None, EmptyStr }
                missing == code \in { None, EmptyStr } \/ state \in { None, EmptyStr }
                known == state \in DOMAIN temp_google_oauth_states
                exchanged == last'.calls = 1 /\ last'.response.ok
            IN  /\ last'.status \in { 200, 400, 500 }
                /\ (last'.status = 200) =>
                       /\ known /\ exchanged
                       /\ LET u == temp_google_oauth_states[state]
                          IN  /\ u \in DOMAIN tokens'
                              /\ tokens'[u].access_token = last'.response.json.access_token
                              /\ tokens'[u].refresh_token = last'.response.json.refresh_token
                /\ (reported \/ missing \/ ~known) => last'.status = 400
                /\ (~reported /\ ~missing /\ known /\ ~exchanged) => last'.status = 500 ]_vars

\* C10 witness: a callback with a state in the store was answered 500 after the exchange
\* failed, the state being consumed and no record written
C10_Witness ==
    /\ last.op = "callback" /\ last.status = 500
    /\ Carried(last.scope, "code") = GoodCode
    /\ Consumed(Carried(last.scope, "state"))
    /\ last.user \notin DOMAIN tokens

\* the step handles an HTTP request
RequestStep == last'.scope.type = "http"

\* the in-memory stores and the credential store are as they were
StoresUnchanged ==
    /\ temp_user_oauth_token' = temp_user_oauth_token
    /\ temp_google_oauth_states' = temp_google_oauth_states
    /\ tokens' = tokens

\* the request carries the service secret as a Bearer Authorization header
ServiceBearer(scope) ==
    /\ BEARER_TOKEN # None
    /\ "authorization" \in DOMAIN scope.headers
    /\ Len(scope.headers.authorization) >= 2
    /\ Lower(scope.headers.authorization[1]) = "bearer"
    /\ Tail(scope.headers.authorization) = BEARER_TOKEN

\* the request's query, as written, names a user and the secret of that user's ticket
TicketInQuery(scope) ==
    LET written == GateQuery(scope.query_string)
    IN  /\ "userid" \in DOMAIN written /\ "token" \in DOMAIN written
        /\ written.userid \in DOMAIN temp_user_oauth_token
        /\ temp_user_oauth_token[written.userid] = written.token

\* C11: a request the gate rejects is answered 401 with the gate's reason, the
\* downstream application is not invoked and no handler effect takes place (no ticket,
\* no state nonce, no credential record, no provider call); a request the gate accepts
\* reaches the downstream application with the scope it arrived with, and the answer is
\* the application's; a tool runs only for a request with the service secret as Bearer
\* token and the /auth handler only for a request whose query holds the user's ticket
C11_RejectedNeverReachesHandler ==
    [][ RequestStep =>
            IF AuthenticationMiddleware(last'.scope) = "app"
                THEN /\ last'.app
                     /\ last'.op \in Tools \cup { "auth", "callback", "other" }
                     /\ last'.status \in { 200, 307, 400, 401, 404, 500 }
                     /\ last'.op \in Tools => ServiceBearer(last'.scope)
                     /\ last'.op = "auth" => TicketInQuery(last'.scope)
                ELSE /\ ~last'.app
                     /\ last'.status = 401
                     /\ last'.body \in { <<"Unauthorized">>, <<"Missing Authorization Header">> }
                     /\ last'.calls = 0 /\ last'.saves = 0
                     /\ StoresUnchanged
                     /\ issued' = issued /\ nonces' = nonces ]_vars

\* C11 witness: with tickets and a credential record in place, a tool call that carries
\* a wrong bearer token was answered 401 by the gate and the tool did not run
C11_Witness ==
    /\ last.op = "tool" /\ last.status = 401 /\ ~last.app
    /\ last.body = <<"Unauthorized">>
    /\ BEARER_TOKEN = SERVICE_SECRET
    /\ last.scope.headers = [authorization |-> <<"Bearer", "wrong">>]
    /\ tokens # << >>

\* the step is a tool call whose refresh the provider answered with a 2xx body
RefreshStep == ToolStep /\ last'.calls = 1 /\ last'.response.ok

\* C13: a refresh that succeeds for user u stores the provider's new access token and
\* the expiry computed from its expires_in, and, when the provider's body holds no
\* refresh_token, the refresh_token stored afterwards is the one stored before
C13_RefreshKeepsRefreshToken ==
    [][ RefreshStep =>
            LET u == last'.user
                body == last'.response.json
            IN  /\ u \in DOMAIN tokens /\ u \in DOMAIN tokens'
                /\ Get(tokens'[u], "access_token", None) = body.access_token
                /\ tokens'[u].expires_at =
                       IF "expires_in" \in DOMAIN body THEN now + body.expires_in ELSE 0
                /\ "refresh_token" \notin DOMAIN body =>
                       /\ "refresh_token" \in DOMAIN tokens'[u]
                       /\ tokens'[u].refresh_token = Get(tokens[u], "refresh_token", None) ]_vars

\* C13 witness: a refresh whose 2xx body held no refresh_token replaced the access token
\* and the expiry of the record, which still holds the refresh token the consent granted
C13_Witness ==
    /\ last.op \in Tools /\ last.calls = 1 /\ last.response.ok
    /\ "refresh_token" \notin DOMAIN last.response.json
    /\ "expires_in" \in DOMAIN last.response.json
    /\ tokens[last.user].refresh_token = ISSUED_REFRESH_TOKEN
    /\ tokens[last.user].access_token = last.response.json.access_token
    /\ tokens[last.user].expires_at = now + last.response.json.expires_in

\* C16 (as stated): when the service secret is missing from the configuration, the
\* service does not come up, so it never handles a request
C16_MissingConfigNeverServes ==
    (BEARER_TOKEN = None) => last.scope.type # "http"

\* C17 (as stated): a state nonce enters the store only with the redirect of /auth and
\* leaves it only in a callback; a callback that carries a nonce which is in the store
\* removes that nonce and no other; no nonce is removed twice
C17_StateEntersAndLeaves ==
    [][ LET before == DOMAIN temp_google_oauth_states
            after == DOMAIN temp_google_oauth_states'
            carried == Carried(last'.scope, "state")
        IN  /\ (after \ before # { }) => (last'.op = "auth" /\ last'.status = 307)
            /\ (before \ after # { }) => CallbackStep
            /\ \A n \in before \ after : ~Consumed(n)
            /\ (CallbackStep /\ carried \in before) => after = before \ { carried } ]_vars

\* C18 (as stated): the gate classifies a path by endpoint: only the callback endpoint
\* itself goes unchecked and only /auth itself is checked against the ticket in the
\* query; a request to any other path reaches the application only with the service
\* secret as Bearer token
C18_PathClassByEndpoint ==
    (last.scope.type = "http" /\ last.app) =>
        \/ last.scope.path = CALLBACK_PATH
        \/ last.scope.path = AUTH_PATH /\ TicketInQuery(last.scope)
        \/ last.scope.path \notin { CALLBACK_PATH, AUTH_PATH } /\ ServiceBearer(last.scope)

\* the step issues a ticket for user u: gen_user_auth_token(u) runs in it
IssuesFor(u) == issued' # issued /\ issued'[Len(issued')] = u

\* C19: no step but a call of gen_user_auth_token(u) changes or removes the ticket of
\* u: validations by match_user_auth_token and by the gate, /auth redirects, callbacks
\* and the passing of time leave the ticket store as it is, so the ticket of u stays
\* the one match_user_auth_token accepts
C19_ValidationKeepsTicket ==
    [][ /\ \A u \in DOMAIN temp_user_oauth_token :
               ~IssuesFor(u) =>
                   /\ u \in DOMAIN temp_user_oauth_token'
                   /\ temp_user_oauth_token'[u] = temp_user_oauth_token[u]
        /\ last'.op \in { "auth", "callback", "other", "tick", "tool" } =>
               temp_user_oauth_token' = temp_user_oauth_token ]_vars

\* C19 witness: the ticket of a user has passed the gate and match_user_auth_token at
\* /auth, time has gone by and the callback has stored the user's credentials; the
\* ticket is still in the store and still validates
C19_Witness ==
    /\ last.op = "callback" /\ last.status = 200
    /\ now > StartTime
    /\ last.user \in DOMAIN temp_user_oauth_token
    /\ match_user_auth_token(last.user, temp_user_oauth_token[last.user])
    /\ \E i \in 1..Len(issued) :
           issued[i] = last.user /\ temp_user_oauth_token[last.user] = TicketSecret(i)

\* C20: a callback with a state that is in the store, a code and no error, whose code
\* exchange fails, makes that one exchange call and no other, is answered 500, leaves
\* every credential record as it was, and has taken the state out of the store, so the
\* same callback sent again is refused and authorization starts again at /auth
C20_FailedExchange ==
    [][ ( /\ CallbackStep
          /\ Carried(last'.scope, "error") \in { None, EmptyStr }
          /\ Carried(last'.scope, "code") \notin { None, EmptyStr }
          /\ Carried(last'.scope, "state") \in DOMAIN temp_google_oauth_states
          /\ ~last'.response.ok ) =>
            LET state == Carried(last'.scope, "state")
            IN  /\ last'.calls = 1
                /\ last'.saves = 0
                /\ last'.status = 500
                /\ tokens' = tokens
                /\ state \notin DOMAIN temp_google_oauth_states'
                /\ temp_google_oauth_states' = Pop(temp_google_oauth_states, state)
                /\ state \in consumed' ]_vars

\* C20 witness: the exchange of a code the provider did not issue has failed; the answer
\* is 500 after one call and the state is gone from the store
C20_Witness ==
    /\ last.op = "callback" /\ last.status = 500 /\ last.calls = 1
    /\ Carried(last.scope, "code") = BadCode
    /\ Carried(last.scope, "state") \notin DOMAIN temp_google_oauth_states
    /\ Consumed(Carried(last.scope, "state"))

\* the body is the authorization sentinel for the ticket just issued, in the form either
\* tool writes it
IsSentinel(body, secret) ==
    body \in { Sentinel(tool, secret) : tool \in Tools }

\* C15 (as stated): a tool call for a user whose credential file is malformed (no JSON,
\* no object, no access_token, no expires_at, an expires_at of another type) finds
\* get_user_token to return None, nothing raised, and answers with the sentinel for a
\* ticket it has issued for that user
C15_MalformedRecordIsAbsent ==
    ( /\ last.op \in Tools
      /\ last.user \in DOMAIN tokens
      /\ tokens[last.user] \in MalformedRecords ) =>
        /\ last.check = "none"
        /\ last.token = None
        /\ last.user \in DOMAIN temp_user_oauth_token
        /\ IsSentinel(last.body, temp_user_oauth_token[last.user])

\* the records the saves begun so far were called to write
RecordsOf(pcs) == { json_load(saving[w].text) : w \in { v \in Writers : saving[v].pc \in pcs } }

Begun == { w \in Writers : saving[w].pc # "idle" }
LastSave == CHOOSE w \in Begun : \A v \in Begun : saving[v].turn <= saving[w].turn

\* every save begun so far has returned, and none ran while another had the file open
SavedInTurn ==
    /\ Begun # { }
    /\ \A w \in Begun : saving[w].pc = "closed" /\ saving[w].alone

\* C12: after save_user_google_tokens(u, data) has returned, the file of u is a record
\* with data's access_token and refresh_token and with expires_at = time of the save +
\* expires_in when data has expires_in, else 0; a load made then reads this record back,
\* and get_user_google_credentials answers from it (True, access_token) while the time
\* is below expires_at - 60, (False, refresh_token) else
C12_SaveThenLoad ==
    SavedInTurn =>
        LET data == saving[LastSave].token_data
            record == json_load(file)
            answer == get_user_google_credentials((SINGLE_USER :> read_data.json),
                                                  SINGLE_USER, now)
        IN  /\ file # NoFile
            /\ Get(record, "access_token", None) = data.access_token
            /\ Get(record, "refresh_token", None) = data.refresh_token
            /\ "expires_at" \in DOMAIN record
            /\ record.expires_at =
                   IF "expires_in" \in DOMAIN data THEN now + data.expires_in ELSE 0
            /\ read_data.at = SaveEvents =>
                   /\ read_data.json = record
                   /\ answer =
                          IF "expires_in" \in DOMAIN data /\ data.expires_in > FreshnessMargin
                              THEN [kind |-> "valid", value |-> data.access_token]
                              ELSE [kind |-> "stale", value |-> data.refresh_token]

\* C12 witness: a save of a body with expires_in has returned, then a save of a shorter
\* body without expires_in and another access token, then the file was loaded: the
\* record read is the one of the second save, with expires_at 0
C12_Witness ==
    /\ SavedInTurn
    /\ Cardinality(Begun) = 2
    /\ \E w \in Begun : saving[w].turn = 1 /\ "expires_in" \in DOMAIN saving[w].token_data
                          /\ saving[w].token_data.access_token
                                 # saving[LastSave].token_data.access_token
    /\ "expires_in" \notin DOMAIN saving[LastSave].token_data
    /\ read_data.at = SaveEvents
    /\ read_data.json = save_user_google_tokens(saving[LastSave].token_data, now)
    /\ read_data.json.expires_at = 0

\* C21: a request to the callback endpoint reaches the application whatever
\* Authorization header, ticket or query it carries, and so does a scope that is no HTTP
\* request, which changes no store; a callback writes a credential record only when the
\* state it carries is in the store, the record of the user that state is bound to, and
\* with such a state, a code and an exchange that succeeds it writes whatever else the
\* request holds
C21_CallbackAndNonHttpPassThrough ==
    [][ /\ last'.scope.type \notin { "http", "none" } => last'.app /\ StoresUnchanged
        /\ CallbackStep =>
               LET code == Carried(last'.scope, "code")
                   state == Carried(last'.scope, "state")
                   error == Carried(last'.scope, "error")
                   known == state \in DOMAIN temp_google_oauth_states
               IN  /\ last'.app
                   /\ \A a \in Authorizations :
                          AuthenticationMiddleware([last'.scope EXCEPT !.headers = HeadersOf(a)])
                              = "app"
                   /\ last'.status \in { 200, 400, 500 }
                   /\ (tokens' # tokens \/ last'.saves > 0) =>
                          /\ known
                          /\ tokens' = Put(tokens, temp_google_oauth_states[state],
                                           save_user_google_tokens(last'.response.json, now))
                   /\ ( /\ known
                        /\ error \in { None, EmptyStr }
                        /\ code \notin { None, EmptyStr }
                        /\ last'.response.ok ) =>
                          /\ last'.status = 200
                          /\ last'.saves = 1
                          /\ temp_google_oauth_states[state] \in DOMAIN tokens' ]_vars

\* C21 witness: with the service secret configured, a callback that carries a wrong
\* Bearer token and no ticket, and a state that was in the store, has written the
\* user's record
C21_Witness ==
    /\ last.op = "callback" /\ last.status = 200 /\ last.saves = 1
    /\ BEARER_TOKEN = SERVICE_SECRET
    /\ last.scope.headers = [authorization |-> <<"Bearer", "wrong">>]
    /\ Carried(last.scope, "token") = None
    /\ Consumed(Carried(last.scope, "state"))
    /\ last.user \in DOMAIN tokens

\* the call whose store for user u came last, among the stores made in the state given
LastStoreFor(calls, u) ==
    CHOOSE c \in Callers :
        /\ calls[c].pc = "stored" /\ calls[c].user_id = u
        /\ \A d \in Callers : (calls[d].pc = "stored" /\ calls[d].user_id = u)
                                  => calls[d].turn <= calls[c].turn

\* C22: with calls of gen_user_auth_token for several users interleaved statement by
\* statement, the store step of a call for u sets the entry of u to the secret of that
\* call and leaves every other entry, its key and its secret, as it was, no other step
\* changes the store, and the secret stored for a user is that of the call which stored
\* last for that user
C22_IssueTouchesOwnEntryOnly ==
    [][ /\ \A c \in Callers :
               (issuing[c].pc = "drawn" /\ issuing'[c].pc = "stored") =>
                   LET u == issuing[c].user_id
                   IN  /\ DOMAIN temp_user_oauth_token' = DOMAIN temp_user_oauth_token \cup { u }
                       /\ temp_user_oauth_token'[u] = issuing[c].random_token
                       /\ \A v \in DOMAIN temp_user_oauth_token \ { u } :
                              temp_user_oauth_token'[v] = temp_user_oauth_token[v]
        /\ (\A c \in Callers : issuing'[c].pc = "stored" => issuing[c].pc = "stored") =>
               temp_user_oauth_token' = temp_user_oauth_token
        /\ \A u \in IssueUsers :
               IF \E c \in Callers : issuing'[c].pc = "stored" /\ issuing'[c].user_id = u
                   THEN /\ u \in DOMAIN temp_user_oauth_token'
                        /\ temp_user_oauth_token'[u] = issuing'[LastStoreFor(issuing', u)].random_token
                   ELSE u \notin DOMAIN temp_user_oauth_token' ]_vars

\* C22 witness: a call for one user drew its secret first and stored it last, calls
\* for the other user having drawn and stored in between, one of them twice over; each
\* user holds the secret of the own call that stored last
C22_Witness ==
    \E c, d, e \in Callers :
        /\ issuing[c].pc = "stored" /\ issuing[d].pc = "stored" /\ issuing[e].pc = "stored"
        /\ issuing[c].user_id = SINGLE_USER
        /\ issuing[d].user_id = SPACED_USER /\ issuing[e].user_id = SPACED_USER
        /\ issuing[c].random_token = TicketSecret(1) /\ issuing[c].turn = 3
        /\ issuing[d].random_token = TicketSecret(2) /\ issuing[d].turn = 2
        /\ issuing[e].random_token = TicketSecret(3) /\ issuing[e].turn = 1
        /\ temp_user_oauth_token[SINGLE_USER] = TicketSecret(1)
        /\ temp_user_oauth_token[SPACED_USER] = TicketSecret(2)

\* the credential record of user u is not what it was: created, changed or removed
RecordTouched(u) ==
    \/ (u \in DOMAIN tokens) # (u \in DOMAIN tokens')
    \/ u \in DOMAIN tokens /\ u \in DOMAIN tokens' /\ tokens'[u] # tokens[u]

\* the step is a callback that answered 200 and whose state was drawn at a redirect
\* /auth made for user u, and was in the store
CallbackBoundTo(u) ==
    /\ CallbackStep /\ last'.status = 200
    /\ Carried(last'.scope, "state") \in DOMAIN temp_google_oauth_states
    /\ \E i \in 1..Len(nonces) :
           Carried(last'.scope, "state") = StateNonce(i) /\ nonces[i] = u

\* the step is a tool call for user u in which get_user_token(u) refreshed the record
RefreshFor(u) ==
    /\ ToolStep /\ last'.user = u
    /\ last'.check = "stale" /\ last'.calls = 1 /\ last'.response.ok

PresentsTicket(scope) ==
    \E u \in DOMAIN temp_user_oauth_token :
        \/ temp_user_oauth_token[u] = BearerOf(Get(scope.headers, "authorization", None))
        \/ temp_user_oauth_token[u] = Get(GateQuery(scope.query_string), "token", None)

\* a request to path that presents secret both ways, for user u
Presenting(path, u, secret) ==
    Scope(path, [authorization |-> <<"Bearer">> \o secret],
          << KV("userid", u), KV("token", secret) >>)

\* C24 (as stated): the service secret alone never passes the gate at /auth, which
\* lets a request through only with the ticket of the user it names; and on a path that
\* is neither /auth nor the callback endpoint a request that presents a valid ticket,
\* as Bearer token or as query token, passes only if it presents the service secret as
\* Bearer token, so only if the two secrets are the same or it holds both
C24_SchemesNotInterchangeable ==
    /\ \A u \in DOMAIN temp_user_oauth_token :
           /\ AuthenticationMiddleware(Presenting(MCP_PATH, u, temp_user_oauth_token[u])) = "app"
                  => temp_user_oauth_token[u] = BEARER_TOKEN
           /\ AuthenticationMiddleware(Presenting(AUTH_PATH, u, SERVICE_SECRET)) = "app"
                  => temp_user_oauth_token[u] = SERVICE_SECRET
    /\ (last.scope.type = "http" /\ last.app) =>
           /\ last.scope.path = AUTH_PATH => TicketInQuery(last.scope)
           /\ last.scope.path \notin { AUTH_PATH, CALLBACK_PATH } =>
                  (PresentsTicket(last.scope) => ServiceBearer(last.scope))

\* C25 (as stated): whenever get_user_token(u) attempts a refresh and returns None, the
\* credential record of u, and every other record, is exactly what it was before the
\* call
C25_FailedRefreshKeepsRecord ==
    [][ (ToolStep /\ last'.check = "stale" /\ last'.calls = 1 /\ last'.token = None) =>
            /\ last'.user \in DOMAIN tokens'
            /\ tokens'[last'.user] = tokens[last'.user]
            /\ tokens' = tokens ]_vars

\* Authorization headers of a request that presents no usable token: none, an empty
\* one, a scheme with no token, another scheme
TokenlessAuthorizations == { None, EmptyStr, <<"Bearer">>, <<"Basic">> \o SERVICE_SECRET }

\* C26 (as stated): with no service secret configured, every request to a path that is
\* neither /auth nor the callback endpoint is answered 401 by the gate, also one with
\* no Bearer token or a malformed Authorization header; and a request to /auth for a
\* user that holds no ticket is answered 401, also one that carries no token
C26_AbsentSecretNeverMatches ==
    /\ BEARER_TOKEN = None =>
           /\ \A a \in Authorizations \cup TokenlessAuthorizations :
                  AuthenticationMiddleware(Scope(MCP_PATH, HeadersOf(a), << >>)) # "app"
           /\ (last.scope.type = "http" /\ last.scope.path \notin { AUTH_PATH, CALLBACK_PATH })
                  => (~last.app /\ last.status = 401)
    /\ \A u \in (AnyUserIds \cup RawUserIds) \ DOMAIN temp_user_oauth_token :
           /\ AuthenticationMiddleware(Scope(AUTH_PATH, << >>, << KV("userid", u) >>)) # "app"
           /\ AuthenticationMiddleware(Scope(AUTH_PATH, << >>, << KV("userid", u), <<"token">> >>))
                  # "app"
    /\ AuthenticationMiddleware(Scope(AUTH_PATH, << >>, << >>)) # "app"
    /\ (last.scope.type = "http" /\ last.scope.path = AUTH_PATH
           /\ Carried(last.scope, "userid") \notin DOMAIN temp_user_oauth_token)
          => last.status = 401

\* the step is a request to /auth that carries user id u and the secret of the ticket
\* stored for u, the one the last sentinel for u gave out
AuthStepWithTicket(u) ==
    /\ last'.op = "auth"
    /\ Carried(last'.scope, "userid") = u
    /\ u \in DOMAIN temp_user_oauth_token
    /\ Carried(last'.scope, "token") = temp_user_oauth_token[u]

\* C27 (as stated): for every user u, (1) an /auth request with u and the ticket given
\* out for u stores a fresh state bound to u and redirects to the consent URL of that
\* state; (2) a callback with a state bound to u and a code the provider accepts, with
\* expires_in > 60, saves the record of u with the exchanged access token and
\* expires_at = now + expires_in; (3) a tool call for u made while now < expires_at - 60
\* gets the stored access token with no provider call and answers with the payload,
\* not the sentinel
C27_FlowReachesAuthorized ==
    [][ /\ \A u \in DOMAIN temp_user_oauth_token :
               AuthStepWithTicket(u) =>
                   LET state == StateNonce(Len(nonces) + 1)
                   IN  /\ last'.status = 307
                       /\ state \notin DOMAIN temp_google_oauth_states
                       /\ state \in DOMAIN temp_google_oauth_states'
                       /\ temp_google_oauth_states'[state] = u
                       /\ last'.body = generate_google_auth_url(state)
        /\ ( /\ CallbackStep
             /\ Carried(last'.scope, "state") \in DOMAIN temp_google_oauth_states
             /\ Carried(last'.scope, "error") = None
             /\ Carried(last'.scope, "code") = GoodCode
             /\ last'.response.ok
             /\ "expires_in" \in DOMAIN last'.response.json
             /\ last'.response.json.expires_in > FreshnessMargin ) =>
               LET u == temp_google_oauth_states[Carried(last'.scope, "state")]
               IN  /\ last'.status = 200
                   /\ u \in DOMAIN tokens'
                   /\ tokens'[u].access_token = last'.response.json.access_token
                   /\ tokens'[u].expires_at = now + last'.response.json.expires_in
                   /\ now < tokens'[u].expires_at - FreshnessMargin
        /\ (ToolStep /\ Fresh(last'.user)) =>
               /\ last'.token = tokens[last'.user].access_token
               /\ last'.calls = 0
               /\ last'.body = JsonPayload
               /\ temp_user_oauth_token' = temp_user_oauth_token ]_vars

====
